---- MODULE Spec2Model ----
(***************************************************************************)
(* MPU6050 live plotters: Pitch.py (pitch only), Roll_Pitch.py (pitch and  *)
(* roll) and Roll_Pitch_Yaw.py (pitch, roll and yaw).                      *)
(*                                                                         *)
(* A text line is a sequence of one-character strings.  A Python float is  *)
(* the exact decimal it was parsed from, [m, e] standing for m * 10^(-e)   *)
(* with trailing zeros of the fraction removed, so that "5.0" and "5" are  *)
(* the same value.  The lines fed to the parsers carry digits, signs,      *)
(* dots, commas, whitespace and lower-case letters that form no exponent,  *)
(* "inf" or "nan"; on such text float() below agrees with Python's.        *)
(***************************************************************************)
EXTENDS Integers, Sequences, FiniteSets, TLC

\* ------------------------------------------------------------------------
\* Bounds of the model
\* ------------------------------------------------------------------------

\* deque(maxlen=WINDOW); the scripts set 200, the model keeps the window short
WINDOW == 3

\* lines the transport can deliver within one tick
MaxPending == 4

\* comma-separated fields of a line handed to a parser on its own
MaxFields == 4

\* samples accepted in a session before the transport goes quiet
MaxAccepted == WINDOW + 2

\* ------------------------------------------------------------------------
\* Python values
\* ------------------------------------------------------------------------

None == [t |-> "None", m |-> 0, e |-> 0]

ValueError == [t |-> "ValueError", m |-> 0, e |-> 0]

RECURSIVE Normal(_, _)
\* the decimal m * 10^(-e) without trailing zeros in its fraction
Normal(m, e) ==
    IF m = 0 THEN [t |-> "float", m |-> 0, e |-> 0]
    ELSE IF e > 0 /\ m % 10 = 0 THEN Normal(m \div 10, e - 1)
    ELSE [t |-> "float", m |-> m, e |-> e]

\* the literal 0.0 of Roll_Pitch_Yaw.parse_line and the 0 of init()
Zero == Normal(0, 0)

Digits == {"0", "1", "2", "3", "4", "5", "6", "7", "8", "9"}

DigitVal(c) ==
    CASE c = "0" -> 0 [] c = "1" -> 1 [] c = "2" -> 2 [] c = "3" -> 3
      [] c = "4" -> 4 [] c = "5" -> 5 [] c = "6" -> 6 [] c = "7" -> 7
      [] c = "8" -> 8 [] c = "9" -> 9

Whitespace == {" ", "\n", "\r", "\t"}

RECURSIVE lstrip(_)
lstrip(s) ==
    IF s # <<>> /\ Head(s) \in Whitespace THEN lstrip(Tail(s)) ELSE s

RECURSIVE rstrip(_)
rstrip(s) ==
    IF s # <<>> /\ s[Len(s)] \in Whitespace
    THEN rstrip(SubSeq(s, 1, Len(s) - 1))
    ELSE s

\* str.strip()
strip(s) == rstrip(lstrip(s))

RECURSIVE splitFrom(_, _, _)
\* scan s left to right; cur is the field being collected, a comma closes it
splitFrom(s, cur, acc) ==
    IF s = <<>> THEN Append(acc, cur)
    ELSE IF Head(s) = "," THEN splitFrom(Tail(s), <<>>, Append(acc, cur))
    ELSE splitFrom(Tail(s), Append(cur, Head(s)), acc)

\* str.split(','): always at least one field, '' for an empty string
split(s) == splitFrom(s, <<>>, <<>>)

RECURSIVE digitsValue(_, _)
\* the integer written by a sequence of decimal digits
digitsValue(s, acc) ==
    IF s = <<>> THEN acc ELSE digitsValue(Tail(s), 10 * acc + DigitVal(Head(s)))

\* the text after an optional sign: digits [ "." digits ], at least one digit
unsignedFloat(s, sign) ==
    LET dots == {k \in 1..Len(s) : s[k] = "."}
        body == SelectSeq(s, LAMBDA c : c # ".")
        frac == IF dots = {} THEN 0 ELSE Len(s) - (CHOOSE k \in dots : TRUE)
    IN  IF Cardinality(dots) > 1 THEN ValueError
        ELSE IF body = <<>> THEN ValueError
        ELSE IF \E k \in 1..Len(body) : body[k] \notin Digits THEN ValueError
        ELSE Normal(sign * digitsValue(body, 0), frac)

\* float(str): surrounding whitespace is ignored, one sign may lead
float(s) ==
    LET t == strip(s)
    IN  IF t = <<>> THEN ValueError
        ELSE IF Head(t) = "-" THEN unsignedFloat(Tail(t), -1)
        ELSE IF Head(t) = "+" THEN unsignedFloat(Tail(t), 1)
        ELSE unsignedFloat(t, 1)

\* a try body that raised returns what the bare except returns
Raised(v) == v.t = "ValueError"

\* Pitch.parse_line
parse_line_pitch(line) ==
    LET parts == split(strip(line))
        pitch == float(parts[1])
    IN  IF Raised(pitch) THEN <<None, None, None>>
        ELSE <<pitch, None, None>>

\* Roll_Pitch.parse_line had it tested len(parts) == 2
parse_line_pitch_roll_exact(line) ==
    LET parts == split(strip(line))
    IN  IF Len(parts) = 2
        THEN LET pitch == float(parts[1])
                 roll == float(parts[2])
             IN  IF Raised(pitch) \/ Raised(roll) THEN <<None, None, None>>
                 ELSE <<pitch, roll, None>>
        ELSE <<None, None, None>>

\* Roll_Pitch.parse_line
parse_line_pitch_roll(line) ==
    LET parts == split(strip(line))
    IN  IF Len(parts) >= 2
        THEN LET pitch == float(parts[1])
                 roll == float(parts[2])
             IN  IF Raised(pitch) \/ Raised(roll) THEN <<None, None, None>>
                 ELSE <<pitch, roll, None>>
        ELSE <<None, None, None>>

\* Roll_Pitch_Yaw.parse_line without the branch for two fields
parse_line_pitch_roll_yaw_no_fallback(line) ==
    LET parts == split(strip(line))
    IN  IF Len(parts) = 3
        THEN LET pitch == float(parts[1])
                 roll == float(parts[2])
                 yaw == float(parts[3])
             IN  IF Raised(pitch) \/ Raised(roll) \/ Raised(yaw)
                 THEN <<None, None, None>>
                 ELSE <<pitch, roll, yaw>>
        ELSE <<None, None, None>>

\* Roll_Pitch_Yaw.parse_line had its fallback also taken a lone pitch field
parse_line_pitch_roll_yaw_one_field(line) ==
    LET parts == split(strip(line))
    IN  IF Len(parts) = 3
        THEN LET pitch == float(parts[1])
                 roll == float(parts[2])
                 yaw == float(parts[3])
             IN  IF Raised(pitch) \/ Raised(roll) \/ Raised(yaw)
                 THEN <<None, None, None>>
                 ELSE <<pitch, roll, yaw>>
        ELSE IF Len(parts) = 2
        THEN LET pitch == float(parts[1])
                 roll == float(parts[2])
             IN  IF Raised(pitch) \/ Raised(roll) THEN <<None, None, None>>
                 ELSE <<pitch, roll, Zero>>
        ELSE IF Len(parts) = 1
        THEN LET pitch == float(parts[1])
             IN  IF Raised(pitch) THEN <<None, None, None>>
                 ELSE <<pitch, Zero, Zero>>
        ELSE <<None, None, None>>

\* Roll_Pitch_Yaw.parse_line
parse_line_pitch_roll_yaw(line) ==
    LET parts == split(strip(line))
    IN  IF Len(parts) = 3
        THEN LET pitch == float(parts[1])
                 roll == float(parts[2])
                 yaw == float(parts[3])
             IN  IF Raised(pitch) \/ Raised(roll) \/ Raised(yaw)
                 THEN <<None, None, None>>
                 ELSE <<pitch, roll, yaw>>
        ELSE IF Len(parts) = 2
        THEN LET pitch == float(parts[1])
                 roll == float(parts[2])
             IN  IF Raised(pitch) \/ Raised(roll) THEN <<None, None, None>>
                 ELSE <<pitch, roll, Zero>>
        ELSE <<None, None, None>>

\* the script that is running: 1 Pitch.py, 2 Roll_Pitch.py, 3 Roll_Pitch_Yaw.py
Variants == {1, 2, 3}

\* parse_line of the running script; a channel the script does not track is None
parse_line(v, line) ==
    CASE v = 1 -> parse_line_pitch(line)
      [] v = 2 -> parse_line_pitch_roll(line)
      [] v = 3 -> parse_line_pitch_roll_yaw(line)

\* ------------------------------------------------------------------------
\* State
\* ------------------------------------------------------------------------

VARIABLES
    variant,      \* which of the three scripts is running
    pc,           \* position of the animation callback update(frame)
    i,            \* iterations of the loop that pc is in
    lines,        \* the list lines of Roll_Pitch_Yaw.update, a local
    pitch_buf,    \* deque(maxlen=WINDOW)
    roll_buf,     \* deque(maxlen=WINDOW), not in Pitch.py
    yaw_buf,      \* deque(maxlen=WINDOW), only in Roll_Pitch_Yaw.py
    x_idx,        \* deque(maxlen=WINDOW)
    xlim,         \* x limits of ax1 as last set
    shown,        \* angles last given to update_3d_table / update_bar_angle
    raw,          \* the local raw of update(frame): the line read last
    hist,         \* history: every accepted sample of the session, in order
    acc0,         \* history: Len(hist) when the running tick started
    text,         \* a line handed to a parser on its own
    parsed,       \* what the parser returned for it
    angles,       \* quarter turns <<pitch, roll, yaw>> handed to the composer
    mesh          \* what create_table_vertices returned for them

vars == <<variant, pc, i, lines, raw, pitch_buf, roll_buf, yaw_buf, x_idx,
          xlim, shown, hist, acc0, text, parsed, angles, mesh>>

\* ------------------------------------------------------------------------
\* Lines on the serial link
\* ------------------------------------------------------------------------

L_10_5_0 == <<"1","0",".","0",",","5",".","0",",","0",".","0">>

L_12_55_1 == <<"1","2",".","0",",","5",".","5",",","1",".","0","\r","\n">>

L_bad_line == <<"b","a","d",",","l","i","n","e">>

L_14_6_2 == <<"1","4",".","0",",","6",".","0",",","2",".","0","\n">>

L_blank == <<"\n">>

L_14 == <<"1", "4", "\n">>

\* what ser.readline().decode(errors='ignore') may return when it returns text
SerialLines == {L_10_5_0, L_12_55_1, L_bad_line, L_14_6_2, L_blank, L_14}

\* ------------------------------------------------------------------------
\* The driver: update(frame), called by FuncAnimation every UPDATE_INTERVAL
\* ------------------------------------------------------------------------

\* parse_line(raw) for every script and every line the link may deliver
parse_of == [v \in Variants |-> [ln \in SerialLines |-> parse_line(v, ln)]]

\* for _ in range(5) in Pitch.py, range(20) in the other two
BatchLimit(v) == IF v = 1 THEN 5 ELSE 20

\* a deque built without maxlen
append_unbounded(buf, value) == Append(buf, value)

\* deque.append with maxlen: a full deque drops its oldest element
append(buf, value) ==
    IF Len(buf) = WINDOW THEN Append(Tail(buf), value) ELSE Append(buf, value)

\* len(x_idx) + 1 if x_idx else 1
next_index(xi) == IF xi # <<>> THEN Len(xi) + 1 ELSE 1

\* ax1.set_xlim(max(0, len(xs)-WINDOW), max(WINDOW, len(xs)))
set_xlim(n) ==
    << IF n - WINDOW > 0 THEN n - WINDOW ELSE 0,
       IF WINDOW > n THEN WINDOW ELSE n >>

\* the loop body had it pushed pitch before looking at the other fields
Process_pitch_first(ln) ==
    LET s == parse_of[variant][ln]
        first == float(split(strip(ln))[1])
    IN  IF s[1] = None
        THEN /\ pitch_buf' = IF Raised(first) THEN pitch_buf
                             ELSE append(pitch_buf, first)
             /\ UNCHANGED <<roll_buf, yaw_buf, x_idx, hist>>
        ELSE /\ pitch_buf' = append(pitch_buf, s[1])
             /\ roll_buf' = IF variant >= 2 THEN append(roll_buf, s[2]) ELSE roll_buf
             /\ yaw_buf' = IF variant = 3 THEN append(yaw_buf, s[3]) ELSE yaw_buf
             /\ x_idx' = append(x_idx, next_index(x_idx))
             /\ hist' = Append(hist, s)

\* the body of the per-line loop after raw has been read
Process(ln) ==
    LET s == parse_of[variant][ln]
    IN  IF s[1] = None
        THEN UNCHANGED <<pitch_buf, roll_buf, yaw_buf, x_idx, hist>>
        ELSE /\ pitch_buf' = append(pitch_buf, s[1])
             /\ roll_buf' = IF variant >= 2 THEN append(roll_buf, s[2]) ELSE roll_buf
             /\ yaw_buf' = IF variant = 3 THEN append(yaw_buf, s[3]) ELSE yaw_buf
             /\ x_idx' = append(x_idx, next_index(x_idx))
             /\ hist' = Append(hist, s)

Init ==
    /\ variant \in Variants
    /\ pc = "idle"
    /\ i = 0
    /\ lines = <<>>
    /\ pitch_buf = <<>>
    /\ roll_buf = <<>>
    /\ yaw_buf = <<>>
    /\ x_idx = <<>>
    /\ xlim = <<0, WINDOW>>
    /\ shown = <<Zero,
                 IF variant >= 2 THEN Zero ELSE None,
                 IF variant = 3 THEN Zero ELSE None>>
    /\ hist = <<>>
    /\ raw = <<>>
    /\ acc0 = 0
    /\ text = <<>>
    /\ parsed = <<None, None, None>>
    /\ angles = <<0, 0, 0>>
    /\ mesh = <<>>

\* the timer fires and update(frame) is entered; whether it fires again after
\* an exception left update is up to the GUI backend, it may
Tick ==
    /\ pc \in {"idle", "raised"}
    /\ pc' = "read"
    /\ i' = 0
    /\ lines' = <<>>
    /\ raw' = <<>>
    /\ acc0' = Len(hist)
    /\ UNCHANGED <<variant, pitch_buf, roll_buf, yaw_buf, x_idx, xlim, shown,
                   hist, text, parsed, angles, mesh>>

\* Roll_Pitch_Yaw.update, first loop: readline returned text, keep it
ReadLine(ln) ==
    /\ variant = 3
    /\ pc = "read"
    /\ i < BatchLimit(variant)
    /\ i < MaxPending
    /\ Len(hist) + Len(lines) < MaxAccepted
    /\ raw' = ln
    /\ lines' = Append(lines, ln)
    /\ i' = i + 1
    /\ UNCHANGED <<variant, pc, pitch_buf, roll_buf, yaw_buf, x_idx, xlim,
                   shown, hist, acc0, text, parsed, angles, mesh>>

\* Pitch.update and Roll_Pitch.update: readline returned text, parse and push
ReadAndProcess(ln) ==
    /\ variant \in {1, 2}
    /\ pc = "read"
    /\ i < BatchLimit(variant)
    /\ i < MaxPending
    /\ Len(hist) < MaxAccepted
    /\ raw' = ln
    /\ Process(ln)
    /\ i' = i + 1
    /\ UNCHANGED <<variant, pc, lines, xlim, shown, acc0, text, parsed,
                   angles, mesh>>

\* the read loop ends: range exhausted, or readline timed out (not raw: break)
EndRead ==
    /\ pc = "read"
    /\ pc' = IF variant = 3 /\ lines # <<>> THEN "process" ELSE "render"
    /\ i' = 0
    /\ raw' = IF i = BatchLimit(variant) THEN raw ELSE <<>>
    /\ UNCHANGED <<variant, lines, pitch_buf, roll_buf, yaw_buf, x_idx, xlim,
                   shown, hist, acc0, text, parsed, angles, mesh>>

\* ser.readline() raises (serial.SerialException); update has no handler, the
\* exception leaves update and takes its locals with it
ReadError ==
    /\ pc = "read"
    /\ i < BatchLimit(variant)
    /\ pc' = "raised"
    /\ i' = 0
    /\ lines' = <<>>
    /\ raw' = <<>>
    /\ UNCHANGED <<variant, pitch_buf, roll_buf, yaw_buf, x_idx, xlim, shown,
                   hist, acc0, text, parsed, angles, mesh>>

\* Roll_Pitch_Yaw.update, second loop: for raw in lines
ProcessLine ==
    /\ variant = 3
    /\ pc = "process"
    /\ i < Len(lines)
    /\ raw' = lines[i + 1]
    /\ Process(lines[i + 1])
    /\ i' = i + 1
    /\ pc' = IF i + 1 = Len(lines) THEN "render" ELSE "process"
    /\ UNCHANGED <<variant, lines, xlim, shown, acc0, text, parsed, angles,
                   mesh>>

\* the rest of update: line data, x limits, then the pose of the latest
\* sample; update returns and its locals are gone
Render ==
    /\ pc = "render"
    /\ xlim' = set_xlim(Len(x_idx))
    /\ shown' = IF pitch_buf # <<>>
                THEN << pitch_buf[Len(pitch_buf)],
                        IF variant >= 2 THEN roll_buf[Len(roll_buf)] ELSE None,
                        IF variant = 3 THEN yaw_buf[Len(yaw_buf)] ELSE None >>
                ELSE shown
    /\ pc' = "idle"
    /\ i' = 0
    /\ lines' = <<>>
    /\ raw' = <<>>
    /\ UNCHANGED <<variant, pitch_buf, roll_buf, yaw_buf, x_idx, hist, acc0,
                   text, parsed, angles, mesh>>

Next ==
    \/ Tick
    \/ \E ln \in SerialLines : ReadLine(ln)
    \/ \E ln \in SerialLines : ReadAndProcess(ln)
    \/ EndRead
    \/ ReadError
    \/ ProcessLine
    \/ Render

Spec == Init /\ [][Next]_vars

\* ------------------------------------------------------------------------
\* The parsers on their own
\* ------------------------------------------------------------------------

\* texts a field may consist of: empty, numbers in several spellings, junk
FieldTexts ==
    { <<>>, <<"1">>, <<"2", ".", "5">>, <<"-", "3">>, <<" ", "4", " ">>,
      <<"b">>, <<".">> }

\* line endings as the link delivers them
LineEnds == { <<>>, <<"\n">>, <<"\r", "\n">> }

RECURSIVE join(_)
\* ','.join(fields)
join(fields) ==
    IF Len(fields) = 1 THEN fields[1]
    ELSE fields[1] \o <<",">> \o join(Tail(fields))

L_20_7 == <<"2","0",".","0",",","7",".","0">>

ParserInputs ==
    SerialLines \cup {L_20_7} \cup
    { join(fs) \o end :
        fs \in UNION { [1..n -> FieldTexts] : n \in 1..MaxFields },
        end \in LineEnds }

InitParse ==
    /\ variant \in Variants
    /\ pc = "parse"
    /\ text \in ParserInputs
    /\ parsed = <<None, None, None>>
    /\ i = 0
    /\ lines = <<>>
    /\ pitch_buf = <<>>
    /\ roll_buf = <<>>
    /\ yaw_buf = <<>>
    /\ x_idx = <<>>
    /\ xlim = <<0, WINDOW>>
    /\ shown = <<Zero, Zero, Zero>>
    /\ hist = <<>>
    /\ raw = <<>>
    /\ acc0 = 0
    /\ angles = <<0, 0, 0>>
    /\ mesh = <<>>

\* parse_line(text) of the running script
Parse ==
    /\ pc = "parse"
    /\ parsed' = parse_line(variant, text)
    /\ pc' = "parsed"
    /\ UNCHANGED <<variant, i, lines, raw, pitch_buf, roll_buf, yaw_buf,
                   x_idx, xlim, shown, hist, acc0, text, angles, mesh>>

NextParse == Parse

SpecParse == InitParse /\ [][NextParse]_vars

\* ------------------------------------------------------------------------
\* The pose composer; lengths in thousandths, angles in whole degrees that
\* are multiples of 90, where np.cos and np.sin are taken as exact
\* ------------------------------------------------------------------------

\* quarter turns either way that the composer is given
MaxQuarter == 2

RightAngles == { 90 * k : k \in -MaxQuarter..MaxQuarter }

\* np.cos(np.radians(deg))
cos(deg) == <<1, 0, -1, 0>>[((deg \div 90) % 4) + 1]

\* np.sin(np.radians(deg))
sin(deg) == <<0, 1, 0, -1>>[((deg \div 90) % 4) + 1]

Ry(pitch_deg) ==
    << <<cos(pitch_deg), 0, sin(pitch_deg)>>,
       <<0, 1, 0>>,
       <<-sin(pitch_deg), 0, cos(pitch_deg)>> >>

Rx(roll_deg) ==
    << <<1, 0, 0>>,
       <<0, cos(roll_deg), -sin(roll_deg)>>,
       <<0, sin(roll_deg), cos(roll_deg)>> >>

Rz(yaw_deg) ==
    << <<cos(yaw_deg), -sin(yaw_deg), 0>>,
       <<sin(yaw_deg), cos(yaw_deg), 0>>,
       <<0, 0, 1>> >>

\* A @ B for 3x3 matrices
matmul(A, B) ==
    [r \in 1..3 |-> [c \in 1..3 |->
        A[r][1] * B[1][c] + A[r][2] * B[2][c] + A[r][3] * B[3][c]]]

\* R.T
transpose(A) == [r \in 1..3 |-> [c \in 1..3 |-> A[c][r]]]

\* V @ M for an array V of row vectors
rows_matmul(V, M) ==
    [k \in 1..Len(V) |-> [c \in 1..3 |->
        V[k][1] * M[1][c] + V[k][2] * M[2][c] + V[k][3] * M[3][c]]]

\* arr[:, 2] += offset
lift_z(V, offset) ==
    [k \in 1..Len(V) |-> <<V[k][1], V[k][2], V[k][3] + offset>>]

tw == 3000

td == 2000

th == 150

leg_w == 150

leg_h == 1200

leg_inset == 300

\* the 1.5 added to every z
lift == 1500

tabletop ==
    << <<-(tw \div 2), -(td \div 2), 0>>, <<tw \div 2, -(td \div 2), 0>>,
       <<tw \div 2, td \div 2, 0>>, <<-(tw \div 2), td \div 2, 0>>,
       <<-(tw \div 2), -(td \div 2), th>>, <<tw \div 2, -(td \div 2), th>>,
       <<tw \div 2, td \div 2, th>>, <<-(tw \div 2), td \div 2, th>> >>

leg_positions ==
    << <<-(tw \div 2) + leg_inset, -(td \div 2) + leg_inset>>,
       <<tw \div 2 - leg_inset, -(td \div 2) + leg_inset>>,
       <<tw \div 2 - leg_inset, td \div 2 - leg_inset>>,
       <<-(tw \div 2) + leg_inset, td \div 2 - leg_inset>> >>

\* the eight corners of the leg standing at (lx, ly)
leg(lx, ly) ==
    LET h == leg_w \div 2
    IN  << <<lx - h, ly - h, -leg_h>>, <<lx + h, ly - h, -leg_h>>,
           <<lx + h, ly + h, -leg_h>>, <<lx - h, ly + h, -leg_h>>,
           <<lx - h, ly - h, 0>>, <<lx + h, ly - h, 0>>,
           <<lx + h, ly + h, 0>>, <<lx - h, ly + h, 0>> >>

legs == [k \in 1..4 |-> leg(leg_positions[k][1], leg_positions[k][2])]

\* rotate the base geometry by R and lift it: <<tabletop_rot, legs_rot>>
rotate_and_lift(R) ==
    << lift_z(rows_matmul(tabletop, transpose(R)), lift),
       [k \in 1..4 |-> lift_z(rows_matmul(legs[k], transpose(R)), lift)] >>

\* Roll_Pitch_Yaw.create_table_vertices had it composed R = Ry @ Rx @ Rz
create_table_vertices_ypr(pitch_deg, roll_deg, yaw_deg) ==
    rotate_and_lift(matmul(matmul(Ry(pitch_deg), Rx(roll_deg)), Rz(yaw_deg)))

\* Roll_Pitch_Yaw.create_table_vertices: R = Rz @ Rx @ Ry
create_table_vertices_pry(pitch_deg, roll_deg, yaw_deg) ==
    rotate_and_lift(matmul(matmul(Rz(yaw_deg), Rx(roll_deg)), Ry(pitch_deg)))

\* Roll_Pitch.create_table_vertices: R = Rx @ Ry
create_table_vertices_pr(pitch_deg, roll_deg) ==
    rotate_and_lift(matmul(Rx(roll_deg), Ry(pitch_deg)))

\* create_table_vertices of the running script (Pitch.py draws a bar instead)
create_table_vertices(v, a) ==
    IF v = 3 THEN create_table_vertices_pry(a[1], a[2], a[3])
    ELSE create_table_vertices_pr(a[1], a[2])

InitPose ==
    /\ variant \in {2, 3}
    /\ pc = "pose"
    /\ angles \in { a \in RightAngles \X RightAngles \X RightAngles :
                      variant = 2 => a[3] = 0 }
    /\ mesh = <<>>
    /\ i = 0
    /\ lines = <<>>
    /\ pitch_buf = <<>>
    /\ roll_buf = <<>>
    /\ yaw_buf = <<>>
    /\ x_idx = <<>>
    /\ xlim = <<0, WINDOW>>
    /\ shown = <<Zero, Zero, Zero>>
    /\ hist = <<>>
    /\ raw = <<>>
    /\ acc0 = 0
    /\ text = <<>>
    /\ parsed = <<None, None, None>>

\* create_table_vertices(angles) as update_3d_table calls it
Compose ==
    /\ pc = "pose"
    /\ mesh' = create_table_vertices(variant, angles)
    /\ pc' = "posed"
    /\ UNCHANGED <<variant, i, lines, raw, pitch_buf, roll_buf, yaw_buf,
                   x_idx, xlim, shown, hist, acc0, text, parsed, angles>>

NextPose == Compose

SpecPose == InitPose /\ [][NextPose]_vars

\* ------------------------------------------------------------------------
\* Vocabulary of the properties, defined without the operators above
\* ------------------------------------------------------------------------

Min(a, b) == IF a < b THEN a ELSE b

Max(a, b) == IF a > b THEN a ELSE b

\* the last k elements of seq
LastN(seq, k) == SubSeq(seq, Len(seq) - k + 1, Len(seq))

\* channel c (1 pitch, 2 roll, 3 yaw) of every accepted sample, in order
Channel(c) == [k \in 1..Len(hist) |-> hist[k][c]]

\* the buffer of channel c
Buffer(c) == <<pitch_buf, roll_buf, yaw_buf>>[c]

\* the channels the running script tracks
Tracked == 1..variant

\* s without the whitespace at its two ends
Stripped(s) ==
    LET ink == {k \in 1..Len(s) : s[k] \notin Whitespace}
    IN  IF ink = {} THEN <<>>
        ELSE SubSeq(s, CHOOSE a \in ink : \A k \in ink : a <= k,
                       CHOOSE b \in ink : \A k \in ink : b >= k)

Commas(s) == {k \in 1..Len(s) : s[k] = ","}

\* number of comma-separated fields of s
FieldCount(s) == Cardinality(Commas(s)) + 1

\* the n-th comma-separated field of s, 1 <= n <= FieldCount(s)
Field(s, n) ==
    LET before == CHOOSE a \in Commas(s) \cup {0} :
                      Cardinality({k \in Commas(s) : k <= a}) = n - 1
        after == CHOOSE b \in Commas(s) \cup {Len(s) + 1} :
                      /\ b > before
                      /\ Cardinality({k \in Commas(s) : k < b}) = n - 1
    IN  SubSeq(s, before + 1, after - 1)

\* field n of the stripped line exists and float() takes it
Numeric(ln, n) ==
    /\ n <= FieldCount(Stripped(ln))
    /\ float(Field(Stripped(ln), n)).t = "float"

\* the number field n of the stripped line spells
Value(ln, n) == float(Field(Stripped(ln), n))

\* the float with the decimal expansion whole.tenths
Dec(whole, tenths) ==
    IF tenths = 0 THEN [t |-> "float", m |-> whole, e |-> 0]
    ELSE [t |-> "float", m |-> 10 * whole + tenths, e |-> 1]

\* a step of update(frame) that takes one line through parse and push
LineStep ==
    /\ i' = i + 1
    /\ \/ pc = "read" /\ variant \in {1, 2}
       \/ pc = "process"

\* ------------------------------------------------------------------------
\* C1
\* ------------------------------------------------------------------------

\* C1: after n accepted samples every channel buffer holds the last
\* min(n, WINDOW) accepted values of its channel, oldest first, and is never
\* longer than WINDOW.
C1_RingBufferHoldsLastWindow ==
    \A c \in Tracked :
        /\ Len(Buffer(c)) = Min(Len(hist), WINDOW)
        /\ Buffer(c) = LastN(Channel(c), Min(Len(hist), WINDOW))
        /\ Len(Buffer(c)) <= WINDOW

\* more samples than the window holds were accepted and the oldest is gone
C1_Witness ==
    /\ variant = 3
    /\ Len(hist) = WINDOW + 1
    /\ pitch_buf[1] # hist[1][1]
    /\ pitch_buf[WINDOW] = hist[WINDOW + 1][1]

\* ------------------------------------------------------------------------
\* C2
\* ------------------------------------------------------------------------

SameLength ==
    \A c \in Tracked : Len(Buffer(c)) = Len(x_idx)

\* buf took exactly one push, of value v
OnePush(old, new, v) ==
    /\ Len(new) = Min(Len(old) + 1, WINDOW)
    /\ new[Len(new)] = v
    /\ \A k \in 1..(Len(new) - 1) : new[k] = old[Len(old) - (Len(new) - 1) + k]

\* C2: all buffers of a variant always hold the same number of elements; a
\* line step pushes once to every one of them when the line parses and to
\* none of them when it does not.
C2_BuffersInLockStep ==
    [][ /\ SameLength'
        /\ LineStep =>
             LET s == parse_of[variant][raw']
             IN  IF s[1] = None
                 THEN UNCHANGED <<pitch_buf, roll_buf, yaw_buf, x_idx>>
                 ELSE /\ \A c \in Tracked : OnePush(Buffer(c), Buffer(c)', s[c])
                      /\ Len(x_idx') = Min(Len(x_idx) + 1, WINDOW)
      ]_vars

\* the pitch+roll script has dropped the first line of a session and then
\* pushed the next line to all three of its buffers
C2_Witness ==
    /\ variant = 2
    /\ pc = "read"
    /\ i = 2
    /\ raw = L_12_55_1
    /\ Len(x_idx) = 1
    /\ pitch_buf = <<Dec(12, 0)>>
    /\ roll_buf = <<Dec(5, 5)>>

\* ------------------------------------------------------------------------
\* C3
\* ------------------------------------------------------------------------

\* C3: the value pushed to the index buffer for the k-th accepted sample of
\* the session is k, also for k > WINDOW; the newest element of x_idx is
\* therefore always the number of samples accepted so far.
C3_IndexIsSampleNumber ==
    hist # <<>> => x_idx[Len(x_idx)] = Len(hist)

\* ------------------------------------------------------------------------
\* C4
\* ------------------------------------------------------------------------

\* C4: at the end of every tick the x limits are
\* [max(0, count - WINDOW), max(WINDOW, count)] with count the number of
\* samples accepted since startup.
C4_XLimFollowsTotalCount ==
    pc = "idle" =>
        xlim = <<Max(0, Len(hist) - WINDOW), Max(WINDOW, Len(hist))>>

\* ------------------------------------------------------------------------
\* C5
\* ------------------------------------------------------------------------

\* the line fails to parse in script v: a required field is missing or is
\* no number (a blank line has one empty field)
FailsToParse(v, ln) ==
    LET n == FieldCount(Stripped(ln))
    IN  CASE v = 1 -> ~Numeric(ln, 1)
          [] v = 2 -> n < 2 \/ ~Numeric(ln, 1) \/ ~Numeric(ln, 2)
          [] v = 3 -> \/ n \notin {2, 3}
                      \/ \E k \in 1..n : ~Numeric(ln, k)

\* the lines of the link that fail to parse, by script
MalformedLines ==
    [v \in Variants |-> {ln \in SerialLines : FailsToParse(v, ln)}]

Malformed(ln) == ln \in MalformedLines[variant]

Scenario == <<L_10_5_0, L_12_55_1, L_bad_line, L_14_6_2>>

\* the 3-axis script has taken the four lines of the scenario through its
\* loop in one tick; what is left of the tick pushes nothing
ScenarioTickDone ==
    /\ variant = 3
    /\ pc = "render"
    /\ lines = Scenario

\* C5: a line that fails to parse changes no buffer and not the accepted
\* count, raises nothing, and the loop goes on to the next line; the four-line
\* scenario raises the accepted count by 3 and, from empty buffers, leaves
\* pitch_buf = [10.0, 12.0, 14.0].
C5_MalformedLineDropped ==
    /\ [](ScenarioTickDone =>
            /\ Len(hist) = acc0 + 3
            /\ acc0 = 0 => pitch_buf = <<Dec(10, 0), Dec(12, 0), Dec(14, 0)>>)
    /\ [][ (LineStep /\ Malformed(raw')) =>
             /\ UNCHANGED <<pitch_buf, roll_buf, yaw_buf, x_idx, hist>>
             /\ pc' # "raised"
             /\ pc' = IF variant = 3 /\ i' = Len(lines) THEN "render" ELSE pc
         ]_vars

\* the scenario ran as the first tick of a session
C5_Witness ==
    /\ ScenarioTickDone
    /\ acc0 = 0
    /\ Len(hist) = 3
    /\ WINDOW >= 3

\* ------------------------------------------------------------------------
\* C7
\* ------------------------------------------------------------------------

\* the angles init() shows: 0 for every channel the script tracks
RestPose == [c \in 1..3 |-> IF c \in Tracked THEN Zero ELSE None]

\* C7: at the end of every tick the pose shown is that of the most recently
\* accepted sample, all angles from the same line, or the rest pose when
\* none was ever accepted; a tick that accepts no sample leaves the angles
\* shown as they were.
C7_PoseIsLatestSample ==
    /\ [](pc = "idle" =>
            shown = IF hist = <<>> THEN RestPose ELSE hist[Len(hist)])
    /\ [][ (pc = "render" /\ Len(hist) = acc0) => shown' = shown ]_vars

\* ------------------------------------------------------------------------
\* C9
\* ------------------------------------------------------------------------

\* C9: a read that times out, returns nothing or fails is an empty batch:
\* no exception leaves the tick, the buffers keep their contents and the tick
\* goes on to its render step.
C9_ReadFailureIsEmptyBatch ==
    [][ (pc = "read" /\ i' # i + 1) =>
          /\ pc' \in {"process", "render"}
          /\ UNCHANGED <<pitch_buf, roll_buf, yaw_buf, x_idx, hist>>
      ]_vars

\* ------------------------------------------------------------------------
\* C6  (SpecParse)
\* ------------------------------------------------------------------------

NoSample == <<None, None, None>>

\* C6: the 3-axis parser goes by the field count of the stripped line: three
\* numeric fields give (pitch, roll, yaw), two numeric fields give
\* (pitch, roll, 0.0), every other count and every non-numeric field that is
\* read give no sample; "20.0,7.0" gives (20.0, 7.0, 0.0).
C6_ThreeAxisParser ==
    (pc = "parsed" /\ variant = 3) =>
        LET n == FieldCount(Stripped(text))
        IN  /\ (n = 3 /\ \A k \in 1..3 : Numeric(text, k)) =>
                 parsed = <<Value(text, 1), Value(text, 2), Value(text, 3)>>
            /\ (n = 2 /\ \A k \in 1..2 : Numeric(text, k)) =>
                 parsed = <<Value(text, 1), Value(text, 2), Dec(0, 0)>>
            /\ n \notin {2, 3} => parsed = NoSample
            /\ (n \in {2, 3} /\ \E k \in 1..n : ~Numeric(text, k)) =>
                 parsed = NoSample
            /\ text = L_20_7 => parsed = <<Dec(20, 0), Dec(7, 0), Dec(0, 0)>>
            /\ text = L_12_55_1 => parsed = <<Dec(12, 0), Dec(5, 5), Dec(1, 0)>>

\* the 3-axis parser has taken the two-field line through its fallback
C6_Witness ==
    /\ pc = "parsed"
    /\ variant = 3
    /\ text = L_20_7
    /\ parsed[3] = Dec(0, 0)

\* ------------------------------------------------------------------------
\* C10  (SpecParse)
\* ------------------------------------------------------------------------

\* the fields a variant expects: 1, 2 or 3
Expected == variant

\* the leading fields of the line, None for a channel the script lacks
Leading(ln) ==
    [c \in 1..3 |-> IF c <= Expected THEN Value(ln, c) ELSE None]

\* the line has more fields than expected and the expected ones are numeric
ExtraFields(ln) ==
    /\ FieldCount(Stripped(ln)) > Expected
    /\ \A k \in 1..Expected : Numeric(ln, k)

\* C10 as stated: in each of the three variants a line with more fields than
\* the variant expects, whose leading expected fields are numeric, is
\* accepted with the values of the leading fields.
C10_ExtraFieldsIgnored ==
    (pc = "parsed" /\ ExtraFields(text)) => parsed = Leading(text)

\* C10 as amended: in the pitch-only and pitch+roll variants such a line is
\* accepted with the values of the leading fields; the 3-axis variant rejects
\* every line of more than 3 fields.
C10_ExtraFieldsIgnoredButThreeAxis ==
    (pc = "parsed" /\ ExtraFields(text)) =>
        parsed = IF variant = 3 THEN NoSample ELSE Leading(text)

\* the pitch+roll parser has accepted a line of four fields
C10_Witness ==
    /\ pc = "parsed"
    /\ variant = 2
    /\ FieldCount(Stripped(text)) = 4
    /\ ExtraFields(text)
    /\ parsed[1] # None

\* ------------------------------------------------------------------------
\* C8  (SpecPose)
\* ------------------------------------------------------------------------

\* the point v turned about the pitch axis
TurnY(deg, v) ==
    << cos(deg) * v[1] + sin(deg) * v[3], v[2],
       cos(deg) * v[3] - sin(deg) * v[1] >>

\* the point v turned about the roll axis
TurnX(deg, v) ==
    << v[1], cos(deg) * v[2] - sin(deg) * v[3],
       sin(deg) * v[2] + cos(deg) * v[3] >>

\* the point v turned about the yaw axis
TurnZ(deg, v) ==
    << cos(deg) * v[1] - sin(deg) * v[2],
       sin(deg) * v[1] + cos(deg) * v[2], v[3] >>

Lifted(v) == <<v[1], v[2], v[3] + 1500>>

\* Rz(yaw) . Rx(roll) . Ry(pitch) . v: pitch first, then roll, then yaw
PitchRollYaw(a, v) == TurnZ(a[3], TurnX(a[2], TurnY(a[1], v)))

\* the same three turns composed the other way round
YawRollPitch(a, v) == TurnY(a[1], TurnX(a[2], TurnZ(a[3], v)))

\* the mesh is the base geometry put through T and lifted
MeshIs(T(_, _)) ==
    /\ \A k \in 1..8 : mesh[1][k] = Lifted(T(angles, tabletop[k]))
    /\ \A l \in 1..4 : \A k \in 1..8 :
           mesh[2][l][k] = Lifted(T(angles, legs[l][k]))

NonZero == {c \in 1..3 : angles[c] # 0}

OddQuarter == {c \in 1..3 : (angles[c] \div 90) % 2 = 1}

Untouched(a, v) == v

====
